---- MODULE Spec2Model ----
(***************************************************************************)
(* Model of the bloodwork extraction pipeline: the two copies of           *)
(* BloodworkExtractor (api.py, bloodwork_app.py) and their entry surfaces  *)
(* (the FastAPI endpoint process_pdf and the Streamlit script main).       *)
(*                                                                         *)
(* Texts are sequences of tokens.  A PDF is a sequence of pages; a page    *)
(* either yields its text or makes page.get_text() raise.  The file system *)
(* follows POSIX: open(path, "wb") truncates the file at the path or       *)
(* creates it, os.remove unlinks the path, and a write through a handle    *)
(* whose file was unlinked is not visible at the path.                     *)
(***************************************************************************)
EXTENDS Naturals, Sequences, FiniteSets

VARIABLES
    program,       \* which of the two programs is deployed: "api" or "app"
    env_api_key,   \* os.environ["OPENAI_API_KEY"], "" when unset
    session_key,   \* st.session_state.openai_api_key of each Streamlit session
    fs,            \* working directory of each surface: path -> file content
    writers,       \* path -> the invocations that opened the file now at the path for writing
    loop,          \* the asyncio event loop of the FastAPI app: who runs on it
    frame          \* the locals of each in-flight invocation

vars == <<program, env_api_key, session_key, fs, writers, loop, frame>>

----------------------------------------------------------------------------
(* Bounds and sample data *)

\* pages per document in the extraction-only specification
MaxPages == 3

Proc == {"h1", "h2"}
Surfaces == {"api", "app"}
Names == {"a.pdf", "b.pdf"}
Whitespace == {" ", "\n"}

Page(t) == [ok |-> TRUE, text |-> t]
BadPage == [ok |-> FALSE, text |-> <<>>]

Pdf(ps) == [kind |-> "pdf", pages |-> ps]
NoFile == [kind |-> "none", pages |-> <<>>]
EmptyFile == [kind |-> "empty", pages |-> <<>>]
Malformed == [kind |-> "malformed", pages |-> <<>>]
Corrupt == [kind |-> "corrupt", pages |-> <<>>]

DocA == Pdf(<<Page(<<"a", " ">>), Page(<<"b">>)>>)
DocB == Pdf(<<Page(<<"c">>)>>)
\* the uploads of the concurrent specification: two readable documents
SampleDocs == {DocA, DocB}

PageKinds == {Page(<<>>), Page(<<"a">>), Page(<<"b", " ">>), BadPage}
AllDocs == {Malformed} \cup
           {Pdf(ps) : ps \in UNION {[1..n -> PageKinds] : n \in 0..MaxPages}}

\* the model service's raw completions (choices[0].message.content)
Completions == {<<" ", "WBC 5.5 (4-9)", "\n">>}

----------------------------------------------------------------------------
(* Pure helpers *)

\* f"temp_{file.filename}" / f"temp_{uploaded_file.name}"
file_path(name) == <<"temp_", name>>
Paths == Surfaces \X {file_path(n) : n \in Names}

RECURSIVE lstrip(_)
lstrip(s) == IF s # <<>> /\ Head(s) \in Whitespace THEN lstrip(Tail(s)) ELSE s

RECURSIVE rstrip(_)
rstrip(s) == IF s # <<>> /\ s[Len(s)] \in Whitespace
             THEN rstrip(SubSeq(s, 1, Len(s) - 1)) ELSE s

\* str.strip()
strip(s) == rstrip(lstrip(s))

\* text += page.get_text()
AccumulateSep(text, page_text) == text \o page_text \o <<"\n">>
Accumulate(text, page_text) == text \o page_text

\* `if not api_key` / `if api_key`: the empty string is falsy
TruthyAlways(k) == TRUE
Truthy(k) == k # ""

SystemMessage ==
    "You are a medical transcription assistant. Extract lab results accurately and format them for Russian medical consultation notes."

\* rules 1-8 of the prompt (Cyrillic transliterated)
EightRules ==
    << "1. Keep original Russian test names",
       "2. Include all numerical values with units",
       "3. Include reference ranges in parentheses",
       "4. Add status (povysheno/ponizheno/vyshe normy/nizhe normy) when indicated",
       "5. Group related tests together",
       "6. Use commas to separate individual tests",
       "7. Use semicolons to separate different test groups",
       "8. Include test dates when available" >>

\* the prompt up to {pdf_text}, one token per non-blank line
PromptHead ==
    << "\n",
       "Analyze this medical lab report and extract ALL test results in the format used in Russian medical consultation notes.",
       "Format each result as: \"Test name: value unit (reference range) status\"",
       "Group by test type and include the test date.",
       "Example format:",
       "\"OAK ot 17.07.2025: lejkocity 5.5 /l (4-9), eritrocity 4.8 /l (3.9-4.7) vyshe normy, gemoglobin 135 g/l (120-140)\"",
       "Rules:" >> \o EightRules \o << "Medical lab report text:" >>

\* the prompt after {pdf_text}: bloodwork_app.py has one more line than api.py
PromptTail(s) ==
    IF s = "api" THEN << "\n" >>
    ELSE << "\n", "Extract and format the results:", "\n" >>

\* the f-string of extract_bloodwork_results
PromptTruncated(s, pdf_text) ==
    PromptHead \o SubSeq(pdf_text, 1, IF Len(pdf_text) < 1 THEN Len(pdf_text) ELSE 1)
               \o PromptTail(s)
Prompt(s, pdf_text) == PromptHead \o pdf_text \o PromptTail(s)

\* messages=[{"role": "system", ...}, {"role": "user", "content": prompt}]
Messages(s, pdf_text) ==
    << [role |-> "system", content |-> <<SystemMessage>>],
       [role |-> "user", content |-> Prompt(s, pdf_text)] >>

\* an exception leaving process_lab_report, which has no handler of its own
UnwindWrapped(e) == "RuntimeError"
Unwind(e) == e

\* where an exception leaving process_lab_report lands
ExceptPc(s) == IF s = "api" THEN "api_except" ELSE "app_except"
ReturnPc(s) == IF s = "api" THEN "api_return" ELSE "app_display"

NoReply == [kind |-> "none", content |-> <<>>]
NoOutcome == [kind |-> "none", detail |-> ""]

IdleFrame ==
    [ surface |-> "none", pc |-> "idle", filename |-> "", upload |-> NoFile,
      api_key |-> "", clicked |-> FALSE,
      doc |-> "none", pages |-> <<>>, page |-> 1, pdf_text |-> <<>>,
      sent |-> <<>>, reply |-> NoReply, formatted_results |-> <<>>,
      results |-> <<>>, raised |-> "", stage |-> "", e |-> "",
      effects |-> {}, outcome |-> NoOutcome ]

Path(p) == <<frame[p].surface, file_path(frame[p].filename)>>

\* the cooperative scheduling of coroutines: synchronous code of process_pdf
\* runs on the event loop without interleaving with other requests
MayRun(p) == frame[p].surface = "api" => loop = p

----------------------------------------------------------------------------
(* File system *)

\* open(path, "wb")
OpenWb(p, path) ==
    /\ fs' = [fs EXCEPT ![path] = EmptyFile]
    /\ writers' = [writers EXCEPT ![path] =
                     IF fs[path].kind = "none" THEN {p} ELSE @ \cup {p}]

\* f.write(data) at offset 0 of a handle opened by OpenWb, then close
WriteAll(p, path, data) ==
    /\ writers' = writers
    /\ IF p \notin writers[path]
       THEN fs' = fs
       ELSE IF fs[path].kind = "empty" \/ fs[path] = data
       THEN fs' = [fs EXCEPT ![path] = data]
       ELSE \E c \in {data, Corrupt} : fs' = [fs EXCEPT ![path] = c]

\* os.remove(path) of an existing file
Remove(path) ==
    /\ fs' = [fs EXCEPT ![path] = NoFile]
    /\ writers' = [writers EXCEPT ![path] = {}]

\* if os.path.exists(path): os.remove(path)
RemoveIfExists(path) ==
    IF fs[path].kind # "none" THEN Remove(path)
    ELSE fs' = fs /\ writers' = writers

----------------------------------------------------------------------------
(* Initial state *)

Init ==
    /\ program \in Surfaces
    /\ env_api_key \in {"", "sk-env"}
    /\ session_key = [p \in Proc |-> ""]
    /\ fs = [x \in Paths |-> NoFile]
    /\ writers = [x \in Paths |-> {}]
    /\ loop = "free"
    /\ frame = [p \in Proc |-> IdleFrame]

----------------------------------------------------------------------------
(* Frame updates *)

\* an exception e raised at `stage` leaves process_lab_report for the
\* surface's except clause
Raise(p, e, stage) ==
    frame' = [frame EXCEPT ![p] =
                [@ EXCEPT !.raised = e, !.stage = stage, !.e = Unwind(e),
                          !.pc = ExceptPc(frame[p].surface)]]

\* the surface is finished with the upload
Done(p, f, kind, detail) ==
    frame' = [frame EXCEPT ![p] =
                [f EXCEPT !.pc = "done",
                          !.outcome = [kind |-> kind, detail |-> detail]]]

Started(s, name, d, key, clicked) ==
    [IdleFrame EXCEPT !.surface = s, !.filename = name, !.upload = d,
                      !.api_key = key, !.clicked = clicked]

----------------------------------------------------------------------------
(* api.py: process_pdf *)

\* lines 81-87: the key check and open(file_path, "wb"), up to the await
ApiStart(p) ==
    /\ program = "api"
    /\ frame[p].pc = "idle"
    /\ loop = "free"
    /\ \E name \in Names, d \in SampleDocs, fails \in BOOLEAN :
         LET f == Started("api", name, d, env_api_key, FALSE)
             g == [f EXCEPT !.effects = {"temp"}]
             path == <<"api", file_path(name)>>
         IN IF ~Truthy(f.api_key)
            THEN /\ Done(p, f, "http500", "OPENAI_API_KEY not set in environment")
                 /\ UNCHANGED <<fs, writers>>
            ELSE IF fails
            THEN /\ Done(p, g, "http500", "unhandled OSError")
                 /\ UNCHANGED <<fs, writers>>
            ELSE /\ OpenWb(p, path)
                 /\ frame' = [frame EXCEPT ![p] = [g EXCEPT !.pc = "api_await"]]
    /\ UNCHANGED <<program, env_api_key, session_key, loop>>

\* line 88 after the await: f.write(...), the with block closes f; then the
\* synchronous try block starts
ApiWrite(p) ==
    /\ frame[p].pc = "api_await"
    /\ loop = "free"
    /\ \E fails \in BOOLEAN :
         IF fails
         THEN /\ Done(p, frame[p], "http500", "unhandled OSError")
              /\ UNCHANGED <<fs, writers, loop>>
         ELSE /\ WriteAll(p, Path(p), frame[p].upload)
              /\ frame' = [frame EXCEPT ![p].pc = "extract_open"]
              /\ loop' = p
    /\ UNCHANGED <<program, env_api_key, session_key>>

\* lines 93, 96-98: return results; finally removes the copy
ApiReturn(p) ==
    /\ frame[p].pc = "api_return"
    /\ MayRun(p)
    /\ RemoveIfExists(Path(p))
    /\ Done(p, frame[p], "ok", "")
    /\ loop' = "free"
    /\ UNCHANGED <<program, env_api_key, session_key>>

\* lines 94-98: HTTPException(500, detail=str(e)); finally removes the copy
ApiExcept(p) ==
    /\ frame[p].pc = "api_except"
    /\ MayRun(p)
    /\ RemoveIfExists(Path(p))
    /\ Done(p, frame[p], "http500", frame[p].e)
    /\ loop' = "free"
    /\ UNCHANGED <<program, env_api_key, session_key>>

----------------------------------------------------------------------------
(* BloodworkExtractor, both copies *)

\* doc = fitz.open(pdf_path); text = ""
ExtractOpen(p) ==
    /\ frame[p].pc = "extract_open"
    /\ MayRun(p)
    /\ LET c == fs[Path(p)]
           f == [frame[p] EXCEPT !.effects = @ \cup {"pdf"}]
       IN IF c.kind = "none"
          THEN frame' = [frame EXCEPT ![p] =
                 [f EXCEPT !.raised = "FileNotFoundError", !.stage = "extract",
                           !.e = Unwind("FileNotFoundError"),
                           !.pc = ExceptPc(f.surface)]]
          ELSE IF c.kind # "pdf"
          THEN frame' = [frame EXCEPT ![p] =
                 [f EXCEPT !.raised = "FileDataError", !.stage = "extract",
                           !.e = Unwind("FileDataError"),
                           !.pc = ExceptPc(f.surface)]]
          ELSE frame' = [frame EXCEPT ![p] =
                 [f EXCEPT !.doc = "open", !.pages = c.pages, !.page = 1,
                           !.pdf_text = <<>>, !.pc = "extract_page"]]
    /\ UNCHANGED <<program, env_api_key, session_key, fs, writers, loop>>

\* for page in doc: text += page.get_text()
ExtractPage(p) ==
    /\ frame[p].pc = "extract_page"
    /\ MayRun(p)
    /\ frame[p].page <= Len(frame[p].pages)
    /\ LET pg == frame[p].pages[frame[p].page]
       IN IF ~pg.ok
          THEN Raise(p, "PageError", "extract")
          ELSE frame' = [frame EXCEPT ![p] =
                 [@ EXCEPT !.pdf_text = Accumulate(@, pg.text), !.page = @ + 1]]
    /\ UNCHANGED <<program, env_api_key, session_key, fs, writers, loop>>

\* doc.close(); return text
ExtractClose(p) ==
    /\ frame[p].pc = "extract_page"
    /\ MayRun(p)
    /\ frame[p].page > Len(frame[p].pages)
    /\ frame' = [frame EXCEPT ![p] = [@ EXCEPT !.doc = "closed", !.pc = "format"]]
    /\ UNCHANGED <<program, env_api_key, session_key, fs, writers, loop>>

\* what the model service does with one request
Replies ==
    {[kind |-> "ok", content |-> c] : c \in Completions} \cup
    {[kind |-> "APIError", content |-> <<>>], [kind |-> "IndexError", content |-> <<>>]}

\* extract_bloodwork_results: api.py lets a failure propagate,
\* bloodwork_app.py catches it and returns the error text
FormatCall(p) ==
    /\ frame[p].pc = "format"
    /\ MayRun(p)
    /\ \E r \in Replies :
         LET f == [frame[p] EXCEPT !.sent = <<Messages(frame[p].surface, frame[p].pdf_text)>>,
                                   !.reply = r, !.effects = @ \cup {"llm"}]
         IN IF r.kind = "ok"
            THEN frame' = [frame EXCEPT ![p] =
                   [f EXCEPT !.formatted_results = strip(r.content), !.pc = "assemble"]]
            ELSE IF f.surface = "api"
            THEN frame' = [frame EXCEPT ![p] =
                   [f EXCEPT !.raised = r.kind, !.stage = "format",
                             !.e = Unwind(r.kind), !.pc = ExceptPc(f.surface)]]
            ELSE frame' = [frame EXCEPT ![p] =
                   [f EXCEPT !.raised = r.kind, !.stage = "format",
                             !.formatted_results = <<"Error processing results: ", r.kind>>,
                             !.pc = "assemble"]]
    /\ UNCHANGED <<program, env_api_key, session_key, fs, writers, loop>>

\* process_lab_report: return {"raw_text", "formatted_results", "processed_at"}
Assemble(p) ==
    /\ frame[p].pc = "assemble"
    /\ MayRun(p)
    /\ frame' = [frame EXCEPT ![p] =
         [@ EXCEPT !.results = << [raw_text |-> frame[p].pdf_text,
                                   formatted_results |-> frame[p].formatted_results,
                                   processed_at |-> "now"] >>,
                   !.pc = ReturnPc(frame[p].surface)]]
    /\ UNCHANGED <<program, env_api_key, session_key, fs, writers, loop>>

----------------------------------------------------------------------------
(* bloodwork_app.py: main, one run of the Streamlit script per interaction *)

\* lines 99-128: the key from the environment or the text input, the upload
AppRun(p) ==
    /\ program = "app"
    /\ frame[p].pc = "idle"
    /\ \E typed \in (IF Truthy(env_api_key) THEN {""} ELSE {session_key[p], "sk-typed", ""}),
          up \in SampleDocs \cup {NoFile}, name \in Names, clicked \in BOOLEAN :
         LET key == IF Truthy(env_api_key) THEN env_api_key ELSE typed
             f == Started("app", IF up = NoFile THEN "" ELSE name, up, key,
                          clicked /\ up # NoFile)
         IN /\ (up = NoFile => name = "a.pdf" /\ ~clicked)
            /\ session_key' = IF Truthy(key) /\ ~Truthy(env_api_key)
                              THEN [session_key EXCEPT ![p] = key] ELSE session_key
            /\ IF ~Truthy(key)
               THEN Done(p, f, "st_warning", "Please provide your OpenAI API key to continue.")
               ELSE IF up = NoFile
               THEN Done(p, f, "page", "")
               ELSE frame' = [frame EXCEPT ![p] = [f EXCEPT !.pc = "app_open"]]
    /\ UNCHANGED <<program, env_api_key, fs, writers, loop>>

\* line 130: open(f"temp_{uploaded_file.name}", "wb")
AppOpen(p) ==
    /\ frame[p].pc = "app_open"
    /\ \E fails \in BOOLEAN :
         LET g == [frame[p] EXCEPT !.effects = {"temp"}]
         IN IF fails
            THEN /\ Done(p, g, "st_exception", "OSError")
                 /\ UNCHANGED <<fs, writers>>
            ELSE /\ OpenWb(p, Path(p))
                 /\ frame' = [frame EXCEPT ![p] = [g EXCEPT !.pc = "app_write"]]
    /\ UNCHANGED <<program, env_api_key, session_key, loop>>

\* lines 131-134: f.write(uploaded_file.getbuffer()); the button
AppWrite(p) ==
    /\ frame[p].pc = "app_write"
    /\ \E fails \in BOOLEAN :
         IF fails
         THEN /\ Done(p, frame[p], "st_exception", "OSError")
              /\ UNCHANGED <<fs, writers>>
         ELSE /\ WriteAll(p, Path(p), frame[p].upload)
              /\ IF frame[p].clicked
                 THEN frame' = [frame EXCEPT ![p].pc = "extract_open"]
                 ELSE Done(p, frame[p], "page", "")
    /\ UNCHANGED <<program, env_api_key, session_key, loop>>

\* lines 142-163: the results are shown, then os.remove without an existence
\* check, inside the try
AppDisplay(p) ==
    /\ frame[p].pc = "app_display"
    /\ IF fs[Path(p)].kind = "none"
       THEN /\ frame' = [frame EXCEPT ![p] =
                  [@ EXCEPT !.e = "FileNotFoundError", !.pc = "app_except"]]
            /\ UNCHANGED <<fs, writers>>
       ELSE /\ Remove(Path(p))
            /\ Done(p, frame[p], "ok", "")
    /\ UNCHANGED <<program, env_api_key, session_key, loop>>

\* lines 165-168: st.error, then remove the copy if it exists
AppExcept(p) ==
    /\ frame[p].pc = "app_except"
    /\ RemoveIfExists(Path(p))
    /\ Done(p, frame[p], "st_error", frame[p].e)
    /\ UNCHANGED <<program, env_api_key, session_key, loop>>

\* the response has been sent / the script run is over: the locals are gone
Finish(p) ==
    /\ frame[p].pc = "done"
    /\ frame' = [frame EXCEPT ![p] = IdleFrame]
    /\ writers' = [x \in Paths |-> writers[x] \ {p}]
    /\ UNCHANGED <<program, env_api_key, session_key, fs, loop>>

----------------------------------------------------------------------------
(* Specifications *)

Next ==
    \E p \in Proc :
        \/ ApiStart(p)
        \/ ApiWrite(p)
        \/ ApiReturn(p)
        \/ ApiExcept(p)
        \/ ExtractOpen(p)
        \/ ExtractPage(p)
        \/ ExtractClose(p)
        \/ FormatCall(p)
        \/ Assemble(p)
        \/ AppRun(p)
        \/ AppOpen(p)
        \/ AppWrite(p)
        \/ AppDisplay(p)
        \/ AppExcept(p)
        \/ Finish(p)

Spec == Init /\ [][Next]_vars

\* process_lab_report alone: the api.py copy (h1) and the bloodwork_app.py
\* copy (h2) are each called on a path that holds the same document, any
\* document of up to MaxPages pages or no file at all; the entry surfaces
\* take no step here (program only gates ApiStart and AppRun)
InitPipeline ==
    /\ program = "api"
    /\ env_api_key = "sk-env"
    /\ session_key = [p \in Proc |-> ""]
    /\ loop = "h1"
    /\ writers = [x \in Paths |-> {}]
    /\ \E d \in AllDocs \cup {NoFile} :
         /\ fs = [x \in Paths |-> IF x[2] = file_path("a.pdf") THEN d ELSE NoFile]
         /\ frame = [p \in Proc |->
                       [Started(IF p = "h1" THEN "api" ELSE "app", "a.pdf", d,
                                "sk-env", TRUE)
                          EXCEPT !.pc = "extract_open", !.effects = {"temp"}]]

NextPipeline ==
    \E p \in Proc :
        \/ ExtractOpen(p)
        \/ ExtractPage(p)
        \/ ExtractClose(p)
        \/ FormatCall(p)
        \/ Assemble(p)

SpecPipeline == InitPipeline /\ [][NextPipeline]_vars

----------------------------------------------------------------------------
(* Properties *)

Terminal == {"api_return", "api_except", "app_display", "app_except"}
InExtract == {"extract_open", "extract_page"}
ServiceErrors == {"APIError", "IndexError"}

\* the ordered concatenation of the per-page text
RECURSIVE TextOf(_)
TextOf(pages) == IF pages = <<>> THEN <<>> ELSE Head(pages).text \o TextOf(Tail(pages))

Readable(d) == d.kind = "pdf" /\ \A k \in 1..Len(d.pages) : d.pages[k].ok

Occurs(t, s) == \E n \in 1..Len(s) : s[n] = t

\* C1: when extraction succeeded and the model call failed, process_lab_report
\* ends with the error propagated to its caller and without a result record,
\* in both copies of BloodworkExtractor.
C1_FormatFailurePropagates ==
    \A p \in Proc :
        frame[p].reply.kind \in ServiceErrors =>
            /\ frame[p].pc = ExceptPc(frame[p].surface)
            /\ frame[p].e = frame[p].reply.kind
            /\ frame[p].results = <<>>
            /\ frame[p].formatted_results = <<>>

\* C2: when a surface is finished with an upload, the temporary copy it
\* opened for writing is no longer on disk.
C2_TempCopyDeleted ==
    \A p \in Proc :
        (frame[p].pc = "done" /\ "temp" \in frame[p].effects) =>
            p \notin writers[Path(p)]

\* C3: once extract_text_from_pdf has ended, by return or by exception, the
\* document handle it opened is closed.
C3_HandleClosed ==
    \A p \in Proc :
        frame[p].pc \notin InExtract => frame[p].doc # "open"

\* C4: every result record holds the text of the document uploaded in the
\* same invocation, and the stripped response to the request built from it.
C4_NoCrossDocumentMixing ==
    \A p \in Proc :
        frame[p].results # <<>> =>
            LET r == frame[p].results[1]
            IN /\ r.raw_text = TextOf(frame[p].upload.pages)
               /\ frame[p].sent = <<Messages(frame[p].surface, r.raw_text)>>
               /\ frame[p].reply.kind = "ok" =>
                      r.formatted_results = strip(frame[p].reply.content)

\* C5 as stated: with OPENAI_API_KEY unset, an invocation for an upload
\* writes no copy, opens no PDF and calls no model, and it ends in a
\* configuration error.
C5_NoEnvKeyNoIO ==
    \A p \in Proc :
        env_api_key = "" =>
            /\ frame[p].effects = {}
            /\ (frame[p].pc = "done" /\ frame[p].upload # NoFile) =>
                   frame[p].outcome.kind \in {"http500", "st_warning"}

\* C5 amended: an invocation that has no credential at all (OPENAI_API_KEY
\* unset and, in the Streamlit script, nothing entered in the key field) ends
\* with the missing-key report of its surface without having written a copy,
\* opened a PDF or called the model.
C5_NoCredentialNoIO ==
    \A p \in Proc :
        (frame[p].pc # "idle" /\ frame[p].api_key = "") =>
            /\ frame[p].effects = {}
            /\ frame[p].pc = "done"
            /\ frame[p].outcome =
                 IF frame[p].surface = "api"
                 THEN [kind |-> "http500", detail |-> "OPENAI_API_KEY not set in environment"]
                 ELSE [kind |-> "st_warning",
                       detail |-> "Please provide your OpenAI API key to continue."]

C5_Witness ==
    \E p \in Proc :
        /\ frame[p].pc = "done"
        /\ frame[p].api_key = ""
        /\ frame[p].outcome.kind \in {"http500", "st_warning"}

\* C6: when extraction fails, no model call is made, no record is produced and
\* the caller of process_lab_report receives the very error extraction raised.
C6_ExtractionFailurePropagates ==
    \A p \in Proc :
        frame[p].stage = "extract" =>
            /\ "llm" \notin frame[p].effects
            /\ frame[p].sent = <<>>
            /\ frame[p].results = <<>>
            /\ frame[p].pc = ExceptPc(frame[p].surface)
            /\ frame[p].raised \in {"FileNotFoundError", "FileDataError", "PageError"}
            /\ frame[p].e = frame[p].raised

C6_Witness ==
    \E p \in Proc :
        /\ frame[p].stage = "extract"
        /\ frame[p].raised = "PageError"
        /\ frame[p].e = "PageError"
        /\ frame[p].page = 2
        /\ frame[p].pdf_text # <<>>
        /\ frame[p].pc = ExceptPc(frame[p].surface)

\* C7: for a readable document extract_text_from_pdf ends without an error and
\* returns the per-page texts concatenated in page order with nothing added,
\* dropped or reordered: the empty text when there is no page or no page has
\* text.
C7_OrderedConcatenation ==
    \A p \in Proc :
        LET d == fs[Path(p)]
        IN (Readable(d) /\ frame[p].pc \notin InExtract) =>
              /\ frame[p].stage # "extract"
              /\ frame[p].doc = "closed"
              /\ frame[p].pdf_text = TextOf(d.pages)
              /\ Len(frame[p].pdf_text) = 0 <=>
                    \A k \in 1..Len(d.pages) : d.pages[k].text = <<>>

C7_Witness ==
    \E p \in Proc :
        /\ frame[p].pc = "format"
        /\ Len(frame[p].pages) >= 3
        /\ frame[p].pages[1].text = <<>>
        /\ frame[p].pages[2].text = <<"b", " ">>
        /\ frame[p].pages[3].text = <<"a">>
        /\ frame[p].pdf_text = <<"b", " ", "a">>

\* C8: every request is the pair (system message, user message); the user
\* message holds the raw text verbatim, and what surrounds the raw text (which
\* holds the eight rules) and the system message are the same in any two
\* requests, whatever their raw texts.
C8_TemplateStable ==
    \A p \in Proc :
        frame[p].sent # <<>> =>
            LET mp == frame[p].sent[1]
                Rp == frame[p].pdf_text
            IN /\ Len(mp) = 2
               /\ mp[1].role = "system"
               /\ mp[2].role = "user"
               /\ \E i \in 1..(Len(mp[2].content) + 1 - Len(Rp)) :
                    /\ SubSeq(mp[2].content, i, i + Len(Rp) - 1) = Rp
                    /\ \A k \in 1..8 :
                          Occurs(EightRules[k], SubSeq(mp[2].content, 1, i - 1))
                    /\ \A q \in Proc \ {p} :
                          frame[q].sent # <<>> =>
                            LET mq == frame[q].sent[1]
                                Rq == frame[q].pdf_text
                                j == i
                            IN /\ mp[1] = mq[1]
                               /\ j <= Len(mq[2].content) + 1 - Len(Rq)
                               /\ SubSeq(mq[2].content, j, j + Len(Rq) - 1) = Rq
                               /\ SubSeq(mp[2].content, 1, i - 1)
                                    = SubSeq(mq[2].content, 1, j - 1)
                               /\ SubSeq(mp[2].content, i + Len(Rp), Len(mp[2].content))
                                    = SubSeq(mq[2].content, j + Len(Rq), Len(mq[2].content))

C8_Witness ==
    \E p, q \in Proc :
        /\ frame[p].sent # <<>>
        /\ frame[q].sent # <<>>
        /\ frame[p].pdf_text = <<"a", " ", "b">>
        /\ frame[q].pdf_text = <<"c">>

\* C9: given the same document and the same behaviour of the model service,
\* the api.py copy (h1) and the bloodwork_app.py copy (h2) of
\* process_lab_report send the same request and end the same way: equal
\* records, or an error in both.
C9_CopiesAgree ==
    LET a == frame["h1"]
        b == frame["h2"]
    IN (a.pc \in Terminal /\ b.pc \in Terminal /\ a.reply = b.reply) =>
          /\ a.sent = b.sent
          /\ \/ /\ a.results # <<>>
                /\ b.results # <<>>
                /\ a.results[1].raw_text = b.results[1].raw_text
                /\ a.results[1].formatted_results = b.results[1].formatted_results
             \/ /\ a.results = <<>>
                /\ b.results = <<>>
                /\ a.e # ""
                /\ b.e # ""

\* C10: an invocation whose own upload is a readable PDF, and which got as far
\* as opening its temporary copy for extraction, does not fail in extraction.
C10_NoInterference ==
    \A p \in Proc :
        (Readable(frame[p].upload) /\ "pdf" \in frame[p].effects) =>
            frame[p].stage # "extract"

====
